---- MODULE Spec2Model ----
(***************************************************************************)
(* ZXGraph (quizx-wasm/src/lib.rs): the wasm wrapper around a ZX-diagram   *)
(* store and its simplification strategies.                                *)
(*                                                                         *)
(* The wrapper's methods are modelled from lib.rs.  The diagram store and  *)
(* the rewrite rules it calls (quizx::vec_graph, quizx::basic_rules,       *)
(* quizx::simplify) are modelled from the written specification of the     *)
(* Diagram Store, the Rewrite Rules and the Simplification Strategies.     *)
(***************************************************************************)
EXTENDS Integers, Sequences, FiniteSets, TLC

VARIABLES g, strat, pc, site, count, result

vars == <<g, strat, pc, site, count, result>>

\* ---------------------------------------------------------------- bounds
MaxV == 3        \* vertex slots of the store: ids 0 .. MaxV-1
MaxAdd == 2      \* vertices the editing calls keep alive at once
MaxE == 2        \* edges the editing calls may create
MaxDE == 2       \* edges of the diagrams the strategies are run on
MaxLen == 3      \* characters of a phase string

Ids == 0 .. (MaxV - 1)
IdInputs == 0 .. MaxAdd          \* MaxAdd is an id the editing calls never allocate

\* ------------------------------------------------------- kinds and codes
VTypes == {"B", "Z", "X", "H"}
ETypes == {"N", "H"}
VCodes == 0 .. 4                 \* u8 vertex_type codes tried; 4 is out of range
ECodes == 0 .. 2                 \* u8 edge_type codes tried; 2 is out of range

\* impl From<VertexType> for VType
VType_from(code) ==
    CASE code = 0 -> "B"
      [] code = 1 -> "Z"
      [] code = 2 -> "X"
      [] code = 3 -> "H"

\* impl From<VType> for VertexType, then `as u8`
VertexType_code(vt) ==
    CASE vt = "B" -> 0
      [] vt = "Z" -> 1
      [] vt = "X" -> 2
      [] vt = "H" -> 3
      [] OTHER -> 1

\* ----------------------------------------------------- rational phases
\* A phase is <<n, d>>, a multiple n/d of pi.
Abs(n) == IF n < 0 THEN 0 - n ELSE n

RECURSIVE Gcd(_, _)
Gcd(a, b) == IF b = 0 THEN a ELSE Gcd(b, a % b)

\* num::rational::Ratio::new for a non-zero denominator: lowest terms, denom > 0
Rational64_new(n, d) ==
    LET k == Gcd(Abs(n), Abs(d))
        s == IF d < 0 THEN 0 - 1 ELSE 1
    IN  <<(s * n) \div k, (s * d) \div k>>

Zero == <<0, 1>>

\* (p + q) mod 2, in lowest terms, wrapped into [0, 2)
PhaseAdd(p, q) ==
    LET d == p[2] * q[2]
        n == (p[1] * q[2] + q[1] * p[2]) % (2 * d)
    IN  Rational64_new(n, d)

PhaseNeg(p) == PhaseAdd(Zero, <<0 - p[1], p[2]>>)

\* ------------------------------------------------------ the diagram store
\* A graph is [vdata, edges, holes]: vdata[v] the vertex in slot v, edges a
\* multiset of <<s, t, kind>> with s <= t, holes the freed slots (a stack).
Dead == [alive |-> FALSE, ty |-> "B", phase |-> Zero]

EKeys == {e \in Ids \X Ids \X ETypes : e[1] <= e[2]}

EK(s, t, k) == IF s <= t THEN <<s, t, k>> ELSE <<t, s, k>>

Graph_new ==
    [vdata |-> [v \in Ids |-> Dead], edges |-> [e \in EKeys |-> 0], holes |-> <<>>]

contains_vertex(G, v) == v \in Ids /\ G.vdata[v].alive

Vertices(G) == {v \in Ids : G.vdata[v].alive}

num_vertices(G) == Cardinality(Vertices(G))

RECURSIVE SumOver(_, _)
SumOver(f, S) ==
    IF S = {} THEN 0
    ELSE LET x == CHOOSE y \in S : TRUE IN f[x] + SumOver(f, S \ {x})

ERank(e) == (e[1] * MaxV + e[2]) * 2 + (IF e[3] = "N" THEN 0 ELSE 1)

\* the edge keys in the order edges() visits them: by source, then target
RECURSIVE KeysInOrder(_)
KeysInOrder(S) ==
    IF S = {} THEN <<>>
    ELSE LET x == CHOOSE y \in S : \A z \in S : ERank(y) <= ERank(z)
         IN  <<x>> \o KeysInOrder(S \ {x})

EKeySeq == KeysInOrder(EKeys)

RECURSIVE SumKeys(_, _)
SumKeys(f, n) == IF n = 0 THEN 0 ELSE f[EKeySeq[n]] + SumKeys(f, n - 1)

num_edges(G) == SumKeys(G.edges, Len(EKeySeq))

\* the edges of G as a set of keys
EdgeSet(G) == {e \in EKeys : G.edges[e] > 0}

Touches(e, v) == e[1] = v \/ e[2] = v

Other(e, v) == IF e[1] = v THEN e[2] ELSE e[1]

connected(G, s, t) ==
    /\ s \in Ids
    /\ t \in Ids
    /\ \E k \in ETypes : G.edges[EK(s, t, k)] > 0

neighbors(G, v) == {w \in Ids : connected(G, v, w)}

\* incident edge ends: a self-loop counts twice
degree(G, v) ==
    SumKeys([e \in EKeys |->
                IF ~Touches(e, v) THEN 0
                ELSE IF e[1] = e[2] THEN 2 * G.edges[e] ELSE G.edges[e]], Len(EKeySeq))

\* the slot the next vertex gets: the last freed slot, else a new one
NextSlot(G) ==
    IF G.holes # <<>> THEN G.holes[Len(G.holes)]
    ELSE num_vertices(G)

Graph_add_vertex(G, vt) ==
    LET v == NextSlot(G) IN
    [G EXCEPT !.vdata[v] = [alive |-> TRUE, ty |-> vt, phase |-> Zero],
              !.holes = IF G.holes # <<>> THEN SubSeq(G.holes, 1, Len(G.holes) - 1)
                        ELSE <<>>]

Graph_add_edge_with_type(G, s, t, et) ==
    [G EXCEPT !.edges[EK(s, t, et)] = @ + 1]

\* removes one edge of kind k between s and t
Graph_remove_edge(G, s, t, k) ==
    [G EXCEPT !.edges[EK(s, t, k)] = @ - 1]

\* cascading delete: the vertex and every edge touching it
Graph_remove_vertex(G, v) ==
    [G EXCEPT !.vdata[v] = Dead,
              !.edges = [e \in EKeys |-> IF Touches(e, v) THEN 0 ELSE G.edges[e]],
              !.holes = Append(G.holes, v)]

Graph_set_phase(G, v, p) == [G EXCEPT !.vdata[v].phase = p]

Graph_set_vertex_type(G, v, vt) == [G EXCEPT !.vdata[v].ty = vt]

Graph_add_to_phase(G, v, p) == [G EXCEPT !.vdata[v].phase = PhaseAdd(@, p)]

\* ------------------------------------------------------- rewrite rules
SameColor(G, v0, v1) ==
    \/ G.vdata[v0].ty = "Z" /\ G.vdata[v1].ty = "Z"
    \/ G.vdata[v0].ty = "X" /\ G.vdata[v1].ty = "X"

\* Spider Fusion predicate: a Simple edge between two spiders of one color
check_spider_fusion(G, v0, v1) ==
    /\ v0 # v1
    /\ G.edges[EK(v0, v1, "N")] > 0
    /\ SameColor(G, v0, v1)

\* the end v of an edge moved to v0
Retarget(e, v0, v1) ==
    EK(IF e[1] = v1 THEN v0 ELSE e[1], IF e[2] = v1 THEN v0 ELSE e[2], e[3])

\* faulty variant: the survivor keeps its own phase
spider_fusion_keeps_phase(G, v0, v1) ==
    LET E1 == [G.edges EXCEPT ![EK(v0, v1, "N")] = @ - 1]
        E2 == [k \in EKeys |->
                 IF Touches(k, v1) THEN 0
                 ELSE SumOver(E1, {e \in EKeys : Retarget(e, v0, v1) = k})]
    IN  [vdata |-> [G.vdata EXCEPT ![v1] = Dead],
         edges |-> E2,
         holes |-> Append(G.holes, v1)]

\* Spider Fusion applier: v1 is merged into v0
spider_fusion_unchecked(G, v0, v1) ==
    LET E1 == [G.edges EXCEPT ![EK(v0, v1, "N")] = @ - 1]
        E2 == [k \in EKeys |->
                 IF Touches(k, v1) THEN 0
                 ELSE SumOver(E1, {e \in EKeys : Retarget(e, v0, v1) = k})]
    IN  [vdata |-> [G.vdata EXCEPT ![v0].phase = PhaseAdd(@, G.vdata[v1].phase),
                                   ![v1] = Dead],
         edges |-> E2,
         holes |-> Append(G.holes, v1)]

\* Identity Removal predicate
check_remove_id(G, v) ==
    /\ G.vdata[v].ty \in {"Z", "X"}
    /\ G.vdata[v].phase = Zero
    /\ degree(G, v) = 2

\* faulty variant: two Hadamard edges compose to a Hadamard edge
EProduct_sticky(k1, k2) == IF k1 = "N" /\ k2 = "N" THEN "N" ELSE "H"

EProduct(k1, k2) == IF k1 = k2 THEN "N" ELSE "H"

\* Identity Removal applier: the two neighbors are joined by the product edge
remove_id_unchecked(G, v) ==
    LET Inc == {e \in EKeys : Touches(e, v) /\ G.edges[e] > 0}
        e1  == CHOOSE e \in Inc : TRUE
        e2  == IF Cardinality(Inc) = 1 THEN e1 ELSE CHOOSE e \in Inc : e # e1
        G1  == Graph_remove_vertex(G, v)
    IN  IF e1[1] = e1[2] THEN G1
        ELSE Graph_add_edge_with_type(G1, Other(e1, v), Other(e2, v),
                                      EProduct(e1[3], e2[3]))

HalfPhases == {<<1, 2>>, <<3, 2>>, <<0 - 1, 2>>}

\* Local Complementation predicate
check_local_comp(G, v) ==
    /\ G.vdata[v].ty = "Z"
    /\ G.vdata[v].phase \in HalfPhases
    /\ \A e \in EKeys : Touches(e, v) /\ G.edges[e] > 0 => e[3] = "H"
    /\ \A w \in neighbors(G, v) : G.vdata[w].ty # "B"

\* a Hadamard edge between a and b is added if absent, removed if present
ToggleH(E, P) ==
    [k \in EKeys |->
        IF k[3] = "H" /\ <<k[1], k[2]>> \in P
        THEN (IF E[k] > 0 THEN E[k] - 1 ELSE 1)
        ELSE E[k]]

\* Local Complementation applier
local_comp_unchecked(G, v) ==
    LET N  == neighbors(G, v) \ {v}
        p  == PhaseNeg(G.vdata[v].phase)
        G1 == Graph_remove_vertex(G, v)
        P  == {q \in N \X N : q[1] < q[2]}
    IN  [G1 EXCEPT !.edges = ToggleH(G1.edges, P),
                   !.vdata = [w \in Ids |->
                                IF w \in N
                                THEN [G1.vdata[w] EXCEPT !.phase = PhaseAdd(@, p)]
                                ELSE G1.vdata[w]]]

PauliPhases == {<<0, 1>>, <<1, 1>>}

\* Pivoting predicate
check_pivot(G, v0, v1) ==
    /\ v0 # v1
    /\ G.edges[EK(v0, v1, "H")] > 0
    /\ G.vdata[v0].ty = "Z" /\ G.vdata[v1].ty = "Z"
    /\ G.vdata[v0].phase \in PauliPhases
    /\ G.vdata[v1].phase \in PauliPhases

\* Pivoting applier
pivot_unchecked(G, v0, v1) ==
    LET N0 == neighbors(G, v0) \ {v0, v1}
        N1 == neighbors(G, v1) \ {v0, v1}
        S  == N0 \cap N1
        A  == N0 \ S
        B  == N1 \ S
        p0 == G.vdata[v0].phase
        p1 == G.vdata[v1].phase
        G1 == Graph_remove_vertex(Graph_remove_vertex(G, v0), v1)
        X  == (A \X B) \cup (A \X S) \cup (B \X S)
        P  == {q \in Ids \X Ids : q[1] < q[2] /\ (q \in X \/ <<q[2], q[1]>> \in X)}
    IN  [G1 EXCEPT !.edges = ToggleH(G1.edges, P),
                   !.vdata = [w \in Ids |->
                                IF w \in A
                                THEN [G1.vdata[w] EXCEPT !.phase = PhaseAdd(@, p1)]
                                ELSE IF w \in B
                                THEN [G1.vdata[w] EXCEPT !.phase = PhaseAdd(@, p0)]
                                ELSE IF w \in S
                                THEN [G1.vdata[w] EXCEPT
                                        !.phase = PhaseAdd(PhaseAdd(@, p0),
                                                           PhaseAdd(p1, <<1, 1>>))]
                                ELSE G1.vdata[w]]]

\* --------------------------------------------------- strategies (driver)
Strategies == {"full_spider_fusion", "simplify_spiders", "simplify_identities",
               "simplify_local_comp", "simplify_pivots", "simplify_clifford",
               "simplify_full"}

\* faulty variant: simplify_clifford leaves Pivoting out of its cycle
RulesOf_clifford_without_pivots(s) ==
    CASE s \in {"full_spider_fusion", "simplify_spiders"} -> {"fusion"}
      [] s = "simplify_identities" -> {"id"}
      [] s = "simplify_local_comp" -> {"lcomp"}
      [] s = "simplify_pivots" -> {"pivot"}
      [] s = "simplify_clifford" -> {"fusion", "id", "lcomp"}
      [] OTHER -> {"fusion", "id", "lcomp", "pivot"}

\* the rule families a strategy drives
RulesOf(s) ==
    CASE s \in {"full_spider_fusion", "simplify_spiders"} -> {"fusion"}
      [] s = "simplify_identities" -> {"id"}
      [] s = "simplify_local_comp" -> {"lcomp"}
      [] s = "simplify_pivots" -> {"pivot"}
      [] OTHER -> {"fusion", "id", "lcomp", "pivot"}

\* find_edge over edges(): the sites <<v0, v1>>, v0 <= v1, where fusion applies
FusionSites(G) ==
    {q \in Vertices(G) \X Vertices(G) : q[1] < q[2] /\ check_spider_fusion(G, q[1], q[2])}

PivotSites(G) ==
    {q \in Vertices(G) \X Vertices(G) : q[1] < q[2] /\ check_pivot(G, q[1], q[2])}

\* every site <<rule, v0, v1>> at which a rule of strategy s matches
Matches(s, G) ==
    {m \in {"fusion", "id", "lcomp", "pivot"} \X Ids \X Ids :
        /\ m[1] \in RulesOf(s)
        /\ CASE m[1] = "fusion" -> <<m[2], m[3]>> \in FusionSites(G)
             [] m[1] = "pivot"  -> <<m[2], m[3]>> \in PivotSites(G)
             [] m[1] = "id"     -> m[2] = m[3] /\ contains_vertex(G, m[2])
                                   /\ check_remove_id(G, m[2])
             [] m[1] = "lcomp"  -> m[2] = m[3] /\ contains_vertex(G, m[2])
                                   /\ check_local_comp(G, m[2])}

ApplyRule(G, m) ==
    CASE m[1] = "fusion" -> spider_fusion_unchecked(G, m[2], m[3])
      [] m[1] = "pivot"  -> pivot_unchecked(G, m[2], m[3])
      [] m[1] = "id"     -> remove_id_unchecked(G, m[2])
      [] m[1] = "lcomp"  -> local_comp_unchecked(G, m[2])

\* ------------------------------------------------------------ the wrapper
Idle == strat = "none"

NoStrategy == UNCHANGED <<strat, pc, site, count>>

\* a call the store rejects: the wrapper has no failure value to return
Fatal == /\ result' = "panic"
         /\ UNCHANGED g

Init ==
    /\ g = Graph_new
    /\ strat = "none"
    /\ pc = "Idle"
    /\ site = <<>>
    /\ count = 0
    /\ result = "ok"

add_vertex(vertex_type) ==
    /\ Idle
    /\ num_vertices(g) < MaxAdd
    /\ LET vt == IF vertex_type \in 0 .. 3 THEN VType_from(vertex_type) ELSE "Z"
       IN  g' = Graph_add_vertex(g, vt)
    /\ result' = "ok"
    /\ NoStrategy

\* faulty variant: the edge is recorded without looking the endpoints up
add_edge_with_type_unchecked(source, target, edge_type) ==
    /\ Idle
    /\ num_edges(g) < MaxE
    /\ LET et == IF edge_type = 1 THEN "H" ELSE "N" IN
       /\ g' = Graph_add_edge_with_type(g, source, target, et)
       /\ result' = "ok"
    /\ NoStrategy

\* faulty variant: an edge already between the pair is replaced
add_edge_with_type_result_replacing(G, source, target, edge_type) ==
    LET et == IF edge_type = 1 THEN "H" ELSE "N"
        k  == EK(source, target, et)
    IN  IF contains_vertex(G, source) /\ contains_vertex(G, target)
        THEN {[st |-> "ok",
               g  |-> [G EXCEPT !.edges =
                         [e \in EKeys |->
                            IF e = k THEN 1
                            ELSE IF e[1] = k[1] /\ e[2] = k[2] THEN 0
                            ELSE G.edges[e]]]]}
        ELSE {[st |-> "panic", g |-> G]}

\* what add_edge_with_type leaves: the diagram with the edge added, or a
\* fatal condition when the store does not find an endpoint
add_edge_with_type_result(G, source, target, edge_type) ==
    LET et == IF edge_type = 1 THEN "H" ELSE "N" IN
    IF contains_vertex(G, source) /\ contains_vertex(G, target)
    THEN {[st |-> "ok", g |-> Graph_add_edge_with_type(G, source, target, et)]}
    ELSE {[st |-> "panic", g |-> G]}

add_edge_with_type(source, target, edge_type) ==
    /\ Idle
    /\ num_edges(g) < MaxE
    /\ \E o \in add_edge_with_type_result(g, source, target, edge_type) :
         /\ g' = o.g
         /\ result' = o.st
    /\ NoStrategy

add_edge(source, target) == add_edge_with_type(source, target, 0)

\* faulty variant: the vertex is dropped and its edges are left behind
remove_vertex_keep_edges(vertex) ==
    /\ Idle
    /\ IF contains_vertex(g, vertex)
       THEN /\ g' = [g EXCEPT !.vdata[vertex] = Dead, !.holes = Append(g.holes, vertex)]
            /\ result' = "ok"
       ELSE Fatal
    /\ NoStrategy

remove_vertex(vertex) ==
    /\ Idle
    /\ IF contains_vertex(g, vertex)
       THEN /\ g' = Graph_remove_vertex(g, vertex)
            /\ result' = "ok"
       ELSE Fatal
    /\ NoStrategy

remove_edge(source, target) ==
    /\ Idle
    /\ IF connected(g, source, target)
       THEN /\ \E k \in ETypes :
                 /\ g.edges[EK(source, target, k)] > 0
                 /\ g' = Graph_remove_edge(g, source, target, k)
            /\ result' = "ok"
       ELSE Fatal
    /\ NoStrategy

\* faulty variant: the connectivity test is skipped
set_edge_type_result_no_test(G, source, target, edge_type) ==
    IF edge_type \notin {0, 1}
    THEN {[st |-> "Invalid edge type", g |-> G]}
    ELSE LET et == IF edge_type = 0 THEN "N" ELSE "H" IN
         IF connected(G, source, target)
         THEN {[st |-> "ok",
                g  |-> Graph_add_edge_with_type(
                           Graph_remove_edge(G, source, target, k), source, target, et)] :
                 k \in {k \in ETypes : G.edges[EK(source, target, k)] > 0}}
         ELSE {[st |-> "ok", g |-> Graph_add_edge_with_type(G, source, target, et)]}

\* faulty variant: the old edge is removed before the edge_type code is validated
set_edge_type_result_remove_first(G, source, target, edge_type) ==
    IF ~connected(G, source, target)
    THEN {[st |-> "Edge does not exist", g |-> G]}
    ELSE {IF edge_type \notin {0, 1}
          THEN [st |-> "Invalid edge type", g |-> Graph_remove_edge(G, source, target, k)]
          ELSE [st |-> "ok",
                g  |-> Graph_add_edge_with_type(
                           Graph_remove_edge(G, source, target, k), source, target,
                           IF edge_type = 0 THEN "N" ELSE "H")] :
            k \in {k \in ETypes : G.edges[EK(source, target, k)] > 0}}

\* what set_edge_type returns and the diagram it leaves: one outcome per
\* edge of the pair that remove_edge may take
set_edge_type_result(G, source, target, edge_type) ==
    IF ~connected(G, source, target)
    THEN {[st |-> "Edge does not exist", g |-> G]}
    ELSE IF edge_type \notin {0, 1}
    THEN {[st |-> "Invalid edge type", g |-> G]}
    ELSE LET et == IF edge_type = 0 THEN "N" ELSE "H" IN
         {[st |-> "ok",
           g  |-> Graph_add_edge_with_type(
                      Graph_remove_edge(G, source, target, k), source, target, et)] :
            k \in {k \in ETypes : G.edges[EK(source, target, k)] > 0}}

set_edge_type(source, target, edge_type) ==
    /\ Idle
    /\ \E o \in set_edge_type_result(g, source, target, edge_type) :
         /\ g' = o.g
         /\ result' = o.st
    /\ NoStrategy

set_vertex_type(vertex, vertex_type) ==
    /\ Idle
    /\ IF vertex_type \notin 0 .. 3
       THEN /\ result' = "Invalid vertex type"
            /\ UNCHANGED g
       ELSE IF contains_vertex(g, vertex)
       THEN /\ g' = Graph_set_vertex_type(g, vertex, VType_from(vertex_type))
            /\ result' = "ok"
       ELSE Fatal
    /\ NoStrategy

\* ------------------------------------------------- set_vertex_phase
Digits == {"0", "1", "2", "3"}
Chars == Digits \cup {"-", "+", "/", "x", " "}

DigitVal(c) == CASE c = "0" -> 0 [] c = "1" -> 1 [] c = "2" -> 2 [] c = "3" -> 3

\* str::trim
RECURSIVE Trim(_)
Trim(s) ==
    IF s = <<>> THEN s
    ELSE IF s[1] = " " THEN Trim(Tail(s))
    ELSE IF s[Len(s)] = " " THEN Trim(SubSeq(s, 1, Len(s) - 1))
    ELSE s

\* str::split('/'): the parts between the separators (always at least one)
RECURSIVE Split(_)
Split(s) ==
    IF \A i \in 1 .. Len(s) : s[i] # "/" THEN <<s>>
    ELSE LET i == CHOOSE j \in 1 .. Len(s) :
                     s[j] = "/" /\ \A k \in 1 .. (j - 1) : s[k] # "/"
         IN  <<SubSeq(s, 1, i - 1)>> \o Split(SubSeq(s, i + 1, Len(s)))

RECURSIVE DecVal(_)
DecVal(s) == IF s = <<>> THEN 0 ELSE 10 * DecVal(SubSeq(s, 1, Len(s) - 1)) + DigitVal(s[Len(s)])

\* str::parse::<i64>: an optional sign, then one or more digits
parse_i64(s) ==
    LET body == IF s # <<>> /\ s[1] \in {"-", "+"} THEN Tail(s) ELSE s
        good == body # <<>> /\ \A i \in 1 .. Len(body) : body[i] \in Digits
    IN  IF ~good THEN [ok |-> FALSE, val |-> 0]
        ELSE [ok |-> TRUE,
              val |-> IF s[1] = "-" THEN 0 - DecVal(body) ELSE DecVal(body)]

\* the outcome of parsing: an error message, "panic" (Ratio::new on a zero
\* denominator), or "ok" with the phase
ParsePhase(phase_str) ==
    LET parts == Split(Trim(phase_str))
        num   == parse_i64(parts[1])
        denom == parse_i64(parts[2])
    IN  IF Len(parts) = 1
        THEN IF ~num.ok THEN [st |-> "Invalid numerator", phase |-> Zero]
             ELSE [st |-> "ok", phase |-> Rational64_new(num.val, 1)]
        ELSE IF Len(parts) = 2
        THEN IF ~num.ok THEN [st |-> "Invalid numerator", phase |-> Zero]
             ELSE IF ~denom.ok THEN [st |-> "Invalid denominator", phase |-> Zero]
             ELSE IF denom.val = 0 THEN [st |-> "panic", phase |-> Zero]
             ELSE [st |-> "ok", phase |-> Rational64_new(num.val, denom.val)]
        ELSE [st |-> "Phase must be in format", phase |-> Zero]

set_vertex_phase(vertex, phase_str) ==
    /\ Idle
    /\ LET r == ParsePhase(phase_str) IN
       IF r.st # "ok"
       THEN /\ result' = r.st
            /\ UNCHANGED g
       ELSE IF contains_vertex(g, vertex)
       THEN /\ g' = Graph_set_phase(g, vertex, r.phase)
            /\ result' = "ok"
       ELSE Fatal
    /\ NoStrategy

\* the vertices whose phase the editing calls set: a live one and a missing one
PhaseIds == {0, MaxAdd}

\* the phase strings the editing calls try
PhaseStrs ==
    {<<"0">>, <<"1", "/", "2">>, <<"x">>, <<"1", "/", "0">>}

\* --------------------------------------------------- to_json / from_json
RECURSIVE SeqOfSet(_)
SeqOfSet(S) ==
    IF S = {} THEN <<>>
    ELSE LET m == CHOOSE x \in S : \A y \in S : x <= y
         IN  <<m>> \o SeqOfSet(S \ {m})

RECURSIVE Repeat(_, _)
Repeat(x, n) == IF n = 0 THEN <<>> ELSE <<x>> \o Repeat(x, n - 1)

\* the edges() enumeration: each edge once, source <= target
RECURSIVE EdgeSeq(_, _)
EdgeSeq(E, n) ==
    IF n = 0 THEN <<>>
    ELSE EdgeSeq(E, n - 1) \o Repeat(EKeySeq[n], E[EKeySeq[n]])

\* a field of a payload: its value, or Absent when the payload lacks it
Absent == 0 - 1
Present == 0

get_vertices_json(G) ==
    LET vs == SeqOfSet(Vertices(G)) IN
    [i \in 1 .. Len(vs) |->
        [id |-> vs[i],
         vertex_type |-> VertexType_code(G.vdata[vs[i]].ty),
         phase |-> G.vdata[vs[i]].phase,
         row |-> Present,
         col |-> Present]]

get_edges_json(G) ==
    LET es == EdgeSeq(G.edges, Len(EKeySeq)) IN
    [i \in 1 .. Len(es) |->
        [source |-> es[i][1],
         target |-> es[i][2],
         edge_type |-> IF es[i][3] = "H" THEN 1 ELSE 0]]

to_json(G) == [vertices |-> get_vertices_json(G), edges |-> get_edges_json(G)]

\* the decoding loops: [st, g], st an error message, "panic" or "ok"
RECURSIVE DecodeVertices(_, _)
DecodeVertices(G, vs) ==
    IF vs = <<>> THEN [st |-> "ok", g |-> G]
    ELSE LET v == vs[1] IN
         IF v.vertex_type = Absent THEN [st |-> "Missing vertex_type", g |-> G]
         ELSE IF v.row = Absent THEN [st |-> "Missing row", g |-> G]
         ELSE IF v.col = Absent THEN [st |-> "Missing col", g |-> G]
         ELSE LET code == v.vertex_type % 256
                  vt   == IF code \in 0 .. 3 THEN VType_from(code) ELSE "Z"
              IN  DecodeVertices(Graph_add_vertex(G, vt), Tail(vs))

RECURSIVE DecodeEdges(_, _)
DecodeEdges(G, es) ==
    IF es = <<>> THEN [st |-> "ok", g |-> G]
    ELSE LET e  == es[1]
             et == IF e.edge_type % 256 = 1 THEN "H" ELSE "N"
         IN  IF ~(contains_vertex(G, e.source) /\ contains_vertex(G, e.target))
             THEN [st |-> "panic", g |-> G]
             ELSE DecodeEdges(Graph_add_edge_with_type(G, e.source, e.target, et),
                              Tail(es))

Decode(json) ==
    LET r == DecodeVertices(Graph_new, json.vertices) IN
    IF r.st # "ok" THEN r ELSE DecodeEdges(r.g, json.edges)

\* the caller replaces its diagram by the decoded one
from_json(json) ==
    /\ Idle
    /\ LET r == Decode(json) IN
       IF r.st = "ok"
       THEN /\ g' = r.g
            /\ result' = "ok"
       ELSE /\ result' = r.st
            /\ UNCHANGED g
    /\ NoStrategy

JV(code) == [id |-> 0, vertex_type |-> code, phase |-> Zero, row |-> Present, col |-> Present]

JE(s, t, c) == [source |-> s, target |-> t, edge_type |-> c]

\* the payloads decoded besides the diagram's own encoding
JsonInputs ==
    {[vertices |-> vs, edges |-> es] :
        vs \in {<<JV(1)>>, <<JV(5), JV(0)>>, <<JV(Absent)>>},
        es \in {<<>>, <<JE(0, 1, 1)>>, <<JE(0, 0, 2)>>}}

\* ------------------------------------------------------- the strategies
\* faulty variant: the closure given to find_edge accepts every Simple edge
apply_spider_fusion_any_edge ==
    /\ Idle
    /\ LET S == {q \in Vertices(g) \X Vertices(g) :
                    q[1] < q[2] /\ g.edges[EK(q[1], q[2], "N")] > 0} IN
       IF S # {}
       THEN /\ \E q \in S : g' = spider_fusion_unchecked(g, q[1], q[2])
            /\ result' = "true"
       ELSE /\ result' = "false"
            /\ UNCHANGED g
    /\ NoStrategy

\* faulty variant: the matched pair is handed to the applier in the other order
apply_spider_fusion_swapped ==
    /\ Idle
    /\ IF FusionSites(g) # {}
       THEN /\ \E q \in FusionSites(g) : g' = spider_fusion_unchecked(g, q[2], q[1])
            /\ result' = "true"
       ELSE /\ result' = "false"
            /\ UNCHANGED g
    /\ NoStrategy

apply_spider_fusion ==
    /\ Idle
    /\ IF FusionSites(g) # {}
       THEN /\ \E q \in FusionSites(g) : g' = spider_fusion_unchecked(g, q[1], q[2])
            /\ result' = "true"
       ELSE /\ result' = "false"
            /\ UNCHANGED g
    /\ NoStrategy

\* a strategy is entered: the driver starts scanning
Call(s) ==
    /\ Idle
    /\ strat' = s
    /\ pc' = "Scanning"
    /\ site' = <<>>
    /\ count' = 0
    /\ result' = "running"
    /\ UNCHANGED g

full_spider_fusion == Call("full_spider_fusion")
simplify_spiders == Call("simplify_spiders")
simplify_identities == Call("simplify_identities")
simplify_local_comp == Call("simplify_local_comp")
simplify_pivots == Call("simplify_pivots")
simplify_clifford == Call("simplify_clifford")
simplify_full == Call("simplify_full")

\* faulty variant: the scan stops at the first pair of vertices, match or not
ScanMatch_any_pair ==
    /\ pc = "Scanning"
    /\ \E v0, v1 \in Vertices(g) : v0 < v1 /\ site' = <<"fusion", v0, v1>>
    /\ pc' = "Applying"
    /\ UNCHANGED <<g, strat, count, result>>

\* Scanning -> Applying: a site satisfying a rule predicate is found
ScanMatch ==
    /\ pc = "Scanning"
    /\ \E m \in Matches(strat, g) : site' = m
    /\ pc' = "Applying"
    /\ UNCHANGED <<g, strat, count, result>>

\* faulty variant: the loop keeps a flag where it should keep a count
Apply_flag_count ==
    /\ pc = "Applying"
    /\ g' = ApplyRule(g, site)
    /\ count' = 1
    /\ pc' = "Scanning"
    /\ site' = <<>>
    /\ UNCHANGED <<strat, result>>

\* faulty variant: the applier leaves the diagram as it found it
Apply_no_progress ==
    /\ pc = "Applying"
    /\ count' = IF strat = "full_spider_fusion" THEN count + 1 ELSE 1
    /\ pc' = "Scanning"
    /\ site' = <<>>
    /\ UNCHANGED <<g, strat, result>>

\* Applying -> Scanning: the applier runs on the matched site
Apply ==
    /\ pc = "Applying"
    /\ g' = ApplyRule(g, site)
    /\ count' = IF strat = "full_spider_fusion" THEN count + 1 ELSE 1
    /\ pc' = "Scanning"
    /\ site' = <<>>
    /\ UNCHANGED <<strat, result>>

\* faulty variant: the loop is left after the first application
ScanStable_early ==
    /\ pc = "Scanning"
    /\ Matches(strat, g) = {} \/ count > 0
    /\ result' = IF strat = "full_spider_fusion" THEN "count"
                 ELSE IF count > 0 THEN "true" ELSE "false"
    /\ count' = IF strat = "full_spider_fusion" THEN count ELSE 0
    /\ strat' = "none"
    /\ pc' = "Idle"
    /\ UNCHANGED <<g, site>>

\* Scanning -> Stable: a full scan finds no match and the strategy returns
ScanStable ==
    /\ pc = "Scanning"
    /\ Matches(strat, g) = {}
    /\ result' = IF strat = "full_spider_fusion" THEN "count"
                 ELSE IF count > 0 THEN "true" ELSE "false"
    /\ count' = IF strat = "full_spider_fusion" THEN count ELSE 0
    /\ strat' = "none"
    /\ pc' = "Idle"
    /\ UNCHANGED <<g, site>>

Edit ==
    \/ \E c \in VCodes : add_vertex(c)
    \/ \E s, t \in IdInputs : add_edge(s, t)
    \/ \E s, t \in IdInputs : \E c \in ECodes : add_edge_with_type(s, t, c)
    \/ \E v \in IdInputs : remove_vertex(v)
    \/ \E s, t \in IdInputs : remove_edge(s, t)
    \/ \E s, t \in IdInputs : \E c \in ECodes : set_edge_type(s, t, c)
    \/ \E v \in IdInputs : \E c \in VCodes : set_vertex_type(v, c)
    \/ \E v \in PhaseIds : \E p \in PhaseStrs : set_vertex_phase(v, p)

Simplify ==
    \/ apply_spider_fusion
    \/ full_spider_fusion
    \/ simplify_spiders
    \/ simplify_identities
    \/ simplify_local_comp
    \/ simplify_pivots
    \/ simplify_clifford
    \/ simplify_full
    \/ ScanMatch
    \/ Apply
    \/ ScanStable

Next ==
    \/ Edit
    \/ \E j \in JsonInputs \cup {to_json(g)} : from_json(j)
    \/ Simplify

Spec == Init /\ [][Next]_vars

\* ------------------------------------- strategies on the diagrams of a size
\* Every diagram of at most MaxV vertices and MaxDE edges that the editing
\* calls can build, with phases among DPhases; freed slots below the highest
\* live one are on the holes stack.
DPhases == {<<0, 1>>, <<1, 2>>, <<1, 1>>}

DVStates ==
    {Dead} \cup {[alive |-> TRUE, ty |-> t, phase |-> p] : t \in {"Z", "X"}, p \in DPhases}
           \cup {[alive |-> TRUE, ty |-> t, phase |-> Zero] : t \in {"B", "H"}}

RECURSIVE BagOfKeys(_)
BagOfKeys(ks) ==
    IF ks = <<>> THEN [e \in EKeys |-> 0]
    ELSE LET b == BagOfKeys(Tail(ks)) IN [b EXCEPT ![ks[1]] = @ + 1]

DEdges == {BagOfKeys(ks) : ks \in UNION {[1 .. n -> EKeys] : n \in 0 .. MaxDE}}

HolesOf(vd) ==
    LET top == IF \E v \in Ids : vd[v].alive
               THEN CHOOSE v \in Ids : vd[v].alive /\ \A w \in Ids : vd[w].alive => w <= v
               ELSE 0
    IN  SeqOfSet({v \in Ids : v < top /\ ~vd[v].alive})

Diagrams ==
    {[vdata |-> vd, edges |-> eb, holes |-> HolesOf(vd)] :
        vd \in [Ids -> DVStates],
        eb \in DEdges}

WellFormed(G) ==
    \A e \in EKeys : G.edges[e] > 0 => G.vdata[e[1]].alive /\ G.vdata[e[2]].alive

InitSimp ==
    /\ g \in {G \in Diagrams : WellFormed(G)}
    /\ strat = "none"
    /\ pc = "Idle"
    /\ site = <<>>
    /\ count = 0
    /\ result = "ok"

NextSimp ==
    \/ Simplify
    \/ from_json(to_json(g))

SpecSimp == InitSimp /\ [][NextSimp]_vars

\* ------------------------------------------- phase strings on one spider
StrsOfLen(n) == [1 .. n -> Chars]

PhaseInputs == UNION {StrsOfLen(n) : n \in 0 .. MaxLen}

InitPhase ==
    /\ g = Graph_add_vertex(Graph_new, "Z")
    /\ strat = "none"
    /\ pc = "Idle"
    /\ site = <<>>
    /\ count = 0
    /\ result = "ok"

NextPhase == \E p \in PhaseInputs : set_vertex_phase(0, p)

SpecPhase == InitPhase /\ [][NextPhase]_vars
\* =================================================================== claims

\* the driver loop runs to completion once a strategy is entered
\* --------------------------------------- strategies run to completion
\* a call of a strategy runs its loop until it returns: the driver is never
\* suspended between a scan and the step that follows it
Driver == ScanMatch \/ Apply \/ ScanStable

TPhases == {<<0, 1>>, <<1, 2>>}

\* H-box vertices match no rule and are left out here (a Boundary vertex is
\* just as inert a neighbor)
TDiagrams ==
    {G \in Diagrams :
        \A v \in Ids : G.vdata[v].alive =>
            G.vdata[v].phase \in TPhases /\ G.vdata[v].ty # "H"}

InitTerm ==
    /\ g \in {G \in TDiagrams : WellFormed(G)}
    /\ strat = "none"
    /\ pc = "Idle"
    /\ site = <<>>
    /\ count = 0
    /\ result = "ok"

SpecSimpFair == InitTerm /\ [][NextSimp]_vars /\ WF_vars(Driver)

BoundarySet(G) == {v \in Vertices(G) : G.vdata[v].ty = "B"}

ErrMessages ==
    {"Edge does not exist", "Invalid edge type", "Invalid vertex type",
     "Invalid numerator", "Invalid denominator", "Phase must be in format"}

\* C1 (invariant I1): in every reachable state, both endpoints of every edge
\* are vertices that currently exist in the diagram.
C1_EdgesHaveEndpoints == WellFormed(g)

\* an edge exists, a vertex has been removed, and a call naming a missing id
\* has just been rejected
C1_Witness ==
    /\ num_edges(g) > 0
    /\ g.holes # <<>>
    /\ result = "panic"

\* a step of a strategy: one is entered, running or returning, or
\* apply_spider_fusion returns
StrategyStep == strat # "none" \/ strat' # "none" \/ result' \in {"true", "false"}

\* C2: no step of any strategy changes the set of Boundary vertices, and the
\* site Identity Removal is about to fire on is never a Boundary vertex.
C2_BoundariesKept ==
    [][StrategyStep =>
         /\ BoundarySet(g') = BoundarySet(g)
         /\ (pc' = "Applying" /\ site'[1] = "id" => g.vdata[site'[2]].ty # "B")]_vars

\* Identity Removal has just fired on a diagram that has a Boundary vertex
C2_Witness ==
    /\ strat = "simplify_identities"
    /\ pc = "Scanning"
    /\ count = 1
    /\ BoundarySet(g) # {}

\* C7: set_edge_type on a pair with no edge between them returns the
\* "Edge does not exist" error and leaves the diagram as it was (num_edges,
\* num_vertices and the edge enumeration included), whatever the edge_type code.
C7_MissingEdgeRejected ==
    \A s, t \in IdInputs : \A c \in ECodes :
        ~connected(g, s, t) =>
            \A o \in set_edge_type_result(g, s, t, c) :
                /\ o.st = "Edge does not exist"
                /\ o.g = g
                /\ num_edges(o.g) = num_edges(g)
                /\ num_vertices(o.g) = num_vertices(g)
                /\ get_edges_json(o.g) = get_edges_json(g)

\* the error has been returned on a diagram that has an edge elsewhere
C7_Witness ==
    /\ result = "Edge does not exist"
    /\ num_edges(g) > 0

\* C8: a step that returns one of the error messages of set_edge_type,
\* set_vertex_phase or set_vertex_type leaves the diagram as it was.
C8_NoPartialMutation ==
    [][result' \in ErrMessages => g' = g]_vars

\* set_edge_type rejected a bad code on an existing edge, which is still there
C8_Witness ==
    /\ result = "Invalid edge type"
    /\ num_edges(g) > 0

\* C3: once entered, every strategy returns: each rule application strictly
\* decreases the number of vertices, and the driver loop reaches Stable, so
\* that the wrapper is between calls again and again (no call runs forever).
C3_Terminates ==
    /\ [][pc = "Applying" => num_vertices(g') < num_vertices(g)]_vars
    /\ []<>(strat = "none")

\* full_spider_fusion has returned after two fusions
C3_Witness ==
    /\ Idle
    /\ result = "count"
    /\ count = 2

FusionStrategies == {"simplify_spiders", "full_spider_fusion"}

\* simplify_spiders or full_spider_fusion returns in this step
SpidersReturn == pc = "Scanning" /\ strat \in FusionStrategies /\ strat' = "none"

SpiderTypes == {"Z", "X"}

\* C4 as stated: when simplify_spiders or full_spider_fusion returns, no Simple
\* edge (a self-loop included) has two Z-spiders or two X-spiders as endpoints.
C4_NoSimpleSameColorEdge ==
    [][SpidersReturn =>
         \A e \in EKeys :
            g'.edges[e] > 0 /\ e[3] = "N" /\ g'.vdata[e[1]].ty \in SpiderTypes
                => g'.vdata[e[1]].ty # g'.vdata[e[2]].ty]_vars

\* C4 as amended: when simplify_spiders or full_spider_fusion returns, no Simple
\* edge joins two distinct spiders of one color; a Simple self-loop may remain.
C4_NoSimpleEdgeBetweenTwo ==
    [][SpidersReturn =>
         \A e \in EKeys :
            g'.edges[e] > 0 /\ e[3] = "N" /\ e[1] # e[2]
                            /\ g'.vdata[e[1]].ty \in SpiderTypes
                => g'.vdata[e[1]].ty # g'.vdata[e[2]].ty]_vars

\* full_spider_fusion has returned after a fusion and a Simple self-loop is
\* left on a spider
C4_Witness ==
    /\ Idle
    /\ result = "count"
    /\ count = 1
    /\ \E v \in Vertices(g) : g.edges[<<v, v, "N">>] > 0 /\ g.vdata[v].ty \in SpiderTypes

\* p is (q0 + q1) mod 2, in lowest terms, within [0, 2)
IsSumMod2(p, q0, q1) ==
    /\ p[2] > 0
    /\ 0 <= p[1] /\ p[1] < 2 * p[2]
    /\ Gcd(p[1], p[2]) = 1
    /\ (p[1] * q0[2] * q1[2] - (q0[1] * q1[2] + q1[1] * q0[2]) * p[2])
           % (2 * p[2] * q0[2] * q1[2]) = 0

\* the effect of one fusion of v1 into v0, from diagram G to diagram H
FusionPost(G, H, v0, v1) ==
    /\ H.vdata[v0].alive /\ ~H.vdata[v1].alive
    /\ H.vdata[v0].ty = G.vdata[v0].ty
    /\ IsSumMod2(H.vdata[v0].phase, G.vdata[v0].phase, G.vdata[v1].phase)
    /\ num_vertices(H) = num_vertices(G) - 1
    /\ num_edges(H) = num_edges(G) - 1
    /\ \A w \in neighbors(G, v1) \ {v0, v1} : w \in neighbors(H, v0)
    /\ \A w \in Ids \ {v0, v1} : H.vdata[w] = G.vdata[w]
    /\ \A e \in EKeys : ~Touches(e, v0) /\ ~Touches(e, v1) => H.edges[e] = G.edges[e]

\* scenario 1: Z(1/2) -Simple- Z(1/4)
Scenario1 ==
    LET G0 == Graph_add_vertex(Graph_add_vertex(Graph_new, "Z"), "Z")
        G1 == Graph_set_phase(Graph_set_phase(G0, 0, <<1, 2>>), 1, <<1, 4>>)
    IN  Graph_add_edge_with_type(G1, 0, 1, "N")

\* C5: one Spider Fusion on a matching pair (v0, v1) removes v1 and the fused
\* edge, leaves v0 alive with phase (phase(v0) + phase(v1)) mod 2, makes every
\* other former neighbor of v1 a neighbor of v0 and changes nothing that is not
\* incident to v0 or v1; Z(1/2) -Simple- Z(1/4) becomes one Z-spider of phase 3/4.
C5_FusionEffect ==
    /\ FusionSites(Scenario1) = {<<0, 1>>}
    /\ LET H == spider_fusion_unchecked(Scenario1, 0, 1) IN
         /\ Vertices(H) = {0}
         /\ H.vdata[0].ty = "Z"
         /\ H.vdata[0].phase = <<3, 4>>
         /\ num_edges(H) = 0
    /\ [][/\ ((pc = "Applying" /\ site[1] = "fusion" /\ pc' = "Scanning")
                 => FusionPost(g, g', site[2], site[3]))
           /\ ((Idle /\ Idle' /\ result' = "true")
                 => \E q \in FusionSites(g) : FusionPost(g, g', q[1], q[2]))]_vars

\* simplify_spiders has just fused a pair, and the survivor has an edge
C5_Witness ==
    /\ strat = "simplify_spiders"
    /\ pc = "Scanning"
    /\ count = 1
    /\ num_edges(g) > 0

\* the product of two edge kinds, as a table
KindProduct(k1, k2) ==
    CASE k1 = "N" /\ k2 = "N" -> "N"
      [] k1 = "N" /\ k2 = "H" -> "H"
      [] k1 = "H" /\ k2 = "N" -> "H"
      [] k1 = "H" /\ k2 = "H" -> "N"

\* G without vertex v and the edges touching it
Without(G, v) == [e \in EKeys |-> IF Touches(e, v) THEN 0 ELSE G.edges[e]]

\* the effect of one Identity Removal at v, from diagram G to diagram H: v is
\* gone and its two former neighbors are joined by one edge of the product kind
\* (a spider whose two edge ends are a self-loop has no neighbor to join)
IdPost(G, H, v) ==
    /\ ~H.vdata[v].alive
    /\ \A w \in Ids \ {v} : H.vdata[w] = G.vdata[w]
    /\ \/ /\ \E k \in ETypes : G.edges[<<v, v, k>>] > 0
          /\ H.edges = Without(G, v)
       \/ \E e1, e2 \in {e \in EKeys : Touches(e, v) /\ e[1] # e[2] /\ G.edges[e] > 0} :
            /\ e1 # e2 \/ G.edges[e1] = 2
            /\ H.edges = [Without(G, v) EXCEPT
                            ![EK(Other(e1, v), Other(e2, v), KindProduct(e1[3], e2[3]))]
                                = @ + 1]

\* scenario 2: a phase-0 Z-spider between two Boundary vertices, reached by a
\* Simple and by a Hadamard edge
Scenario2 ==
    LET G0 == Graph_add_vertex(Graph_add_vertex(Graph_add_vertex(Graph_new, "B"), "Z"), "B")
    IN  Graph_add_edge_with_type(Graph_add_edge_with_type(G0, 0, 1, "N"), 1, 2, "H")

ClaimForm(p) ==
    LET parts == Split(Trim(p)) IN
    \/ Len(parts) = 1 /\ parse_i64(parts[1]).ok
    \/ /\ Len(parts) = 2
       /\ parse_i64(parts[1]).ok
       /\ parse_i64(parts[2]).ok
       /\ parse_i64(parts[2]).val > 0

\* p is n/d in lowest terms with a positive denominator
IsLowestTerms(p, n, d) ==
    /\ p[2] > 0
    /\ Gcd(Abs(p[1]), p[2]) = 1
    /\ p[1] * d = n * p[2]

\* C9 as stated: set_vertex_phase accepts exactly the strings "N" and "N/D"
\* with D > 0 and stores N/D in lowest terms; every other string gets an error
\* result and never a fatal condition.
C9_PhaseStrings ==
    [][\A p \in PhaseInputs :
         set_vertex_phase(0, p) =>
            IF ClaimForm(p)
            THEN LET parts == Split(Trim(p))
                     n == parse_i64(parts[1]).val
                     d == IF Len(parts) = 2 THEN parse_i64(parts[2]).val ELSE 1
                 IN  result' = "ok" /\ IsLowestTerms(g'.vdata[0].phase, n, d)
            ELSE result' \in ErrMessages /\ g' = g]_vars

\* the vertices of G in ascending id order
VSeq(G) == SeqOfSet(Vertices(G))

\* H has the vertex count, edge count, vertex kinds and edge kinds of G, the
\* i-th vertex of one corresponding to the i-th vertex of the other
SameDiagram(G, H) ==
    /\ num_vertices(H) = num_vertices(G)
    /\ num_edges(H) = num_edges(G)
    /\ \A i \in 1 .. num_vertices(G) :
         H.vdata[VSeq(H)[i]].ty = G.vdata[VSeq(G)[i]].ty
    /\ \A i, j \in 1 .. num_vertices(G) : \A k \in ETypes :
         H.edges[EK(VSeq(H)[i], VSeq(H)[j], k)] = G.edges[EK(VSeq(G)[i], VSeq(G)[j], k)]

\* C10 as stated: decoding the encoding of any reachable diagram succeeds and
\* gives a diagram with the same vertex count, edge count, vertex kinds and
\* edge kinds between corresponding vertices.
C10_RoundTrip ==
    LET r == Decode(to_json(g)) IN
    /\ r.st = "ok"
    /\ SameDiagram(g, r.g)

\* the number of edges of G that touch v (a self-loop is one edge)
EdgesAt(G, v) ==
    SumKeys([e \in EKeys |-> IF Touches(e, v) THEN G.edges[e] ELSE 0], Len(EKeySeq))

\* C11: remove_vertex(v) on an existing vertex is one step after which v is
\* not a vertex, no edge has v as an endpoint, num_edges has gone down by the
\* number of edges that touched v, and every vertex and edge not incident to v
\* is as before.
C11_CascadingDelete ==
    [][\A v \in IdInputs :
         (contains_vertex(g, v) /\ remove_vertex(v)) =>
            /\ result' = "ok"
            /\ ~contains_vertex(g', v)
            /\ \A e \in EKeys : Touches(e, v) => g'.edges[e] = 0
            /\ num_edges(g') = num_edges(g) - EdgesAt(g, v)
            /\ num_vertices(g') = num_vertices(g) - 1
            /\ \A w \in Ids \ {v} : g'.vdata[w] = g.vdata[w]
            /\ \A e \in EKeys : ~Touches(e, v) => g'.edges[e] = g.edges[e]]_vars

\* vertex 0 has been removed while vertex 1 keeps a self-loop
C11_Witness ==
    /\ Idle
    /\ result = "ok"
    /\ g.holes = <<0>>
    /\ contains_vertex(g, 1)
    /\ g.edges[<<1, 1, "N">>] = 1
    /\ num_edges(g) = 1

\* none of the four rules has a site in G
NoRuleMatches(G) ==
    /\ FusionSites(G) = {}
    /\ PivotSites(G) = {}
    /\ \A v \in Vertices(G) : ~check_remove_id(G, v) /\ ~check_local_comp(G, v)

\* C12: simplify_clifford is idempotent: the diagram it returns has no site of
\* any of the four rules, and a call entered on such a diagram returns false
\* and leaves the diagram exactly as it was.
C12_CliffordIdempotent ==
    [][/\ ((strat = "simplify_clifford" /\ strat' = "none") => NoRuleMatches(g'))
       /\ ((strat = "simplify_clifford" /\ pc = "Scanning" /\ count = 0
               /\ NoRuleMatches(g))
             => (strat' = "none" /\ result' = "false" /\ g' = g))]_vars

\* simplify_clifford is about to return after rewriting, and vertices are left
C12_Witness ==
    /\ strat = "simplify_clifford"
    /\ pc = "Scanning"
    /\ count = 1
    /\ NoRuleMatches(g)
    /\ num_vertices(g) = 2
    /\ num_edges(g) > 0

\* a call that names a vertex id the diagram does not have
MissingIdCall ==
    \/ \E v \in IdInputs : ~contains_vertex(g, v) /\ remove_vertex(v)
    \/ \E s, t \in IdInputs :
          /\ ~(contains_vertex(g, s) /\ contains_vertex(g, t))
          /\ add_edge(s, t) \/ add_edge_with_type(s, t, 1) \/ remove_edge(s, t)
    \/ \E v \in IdInputs : ~contains_vertex(g, v) /\ set_vertex_type(v, 1)
    \/ \E v \in PhaseIds : ~contains_vertex(g, v) /\ set_vertex_phase(v, <<"0">>)

\* C13 as stated: every operation given a vertex id that does not exist
\* returns a defined error to its caller and leaves the diagram unchanged.
C13_MissingIdRejected ==
    [][MissingIdCall => (result' \in ErrMessages /\ g' = g)]_vars

\* a call given a vertex kind code outside 0..3 or an edge kind code outside 0..1
BadCodeCall ==
    \/ \E c \in VCodes \ (0 .. 3) : add_vertex(c)
    \/ \E s, t \in IdInputs : \E c \in ECodes \ {0, 1} :
          /\ contains_vertex(g, s) /\ contains_vertex(g, t)
          /\ add_edge_with_type(s, t, c)
    \/ \E s, t \in IdInputs : \E c \in ECodes \ {0, 1} :
          connected(g, s, t) /\ set_edge_type(s, t, c)
    \/ \E v \in IdInputs : \E c \in VCodes \ (0 .. 3) : set_vertex_type(v, c)
    \/ from_json([vertices |-> <<JV(5), JV(0)>>, edges |-> <<>>])
    \/ from_json([vertices |-> <<JV(1)>>, edges |-> <<JE(0, 0, 2)>>])

\* C14 as stated: every call given an out-of-range kind code is rejected with
\* an invalid-argument error and changes nothing (no vertex, no edge is added).
C14_BadCodeRejected ==
    [][BadCodeCall =>
         /\ result' \in {"Invalid vertex type", "Invalid edge type"}
         /\ g' = g]_vars

\* C15: full_spider_fusion returns the number of fusions it applied. The call
\* enters with count 0; every pass of its loop in which apply_spider_fusion
\* succeeds adds 1 to count and takes one vertex away, so count is
\* num_vertices at entry minus num_vertices now; the call returns that count
\* with no fusion site left, and it returns 0 exactly when there was no fusion
\* site at entry, the diagram then being unchanged.
C15_FusionCount ==
    [][/\ (strat = "none" /\ strat' = "full_spider_fusion") => (count' = 0 /\ g' = g)
       /\ strat = "full_spider_fusion" =>
            /\ (pc = "Scanning" /\ pc' = "Applying") =>
                    /\ <<site'[2], site'[3]>> \in FusionSites(g)
                    /\ count' = count /\ g' = g
            /\ pc = "Applying" =>
                    /\ count' = count + 1
                    /\ num_vertices(g') = num_vertices(g) - 1
            /\ strat' = "none" =>
                    /\ result' = "count" /\ count' = count /\ g' = g
                    /\ FusionSites(g) = {}
            /\ (pc = "Scanning" /\ count = 0) =>
                    ((FusionSites(g) = {}) <=> (strat' = "none"))]_vars

\* full_spider_fusion has returned 2 and one vertex is left of three
C15_Witness ==
    /\ Idle
    /\ result = "count"
    /\ count = 2
    /\ num_vertices(g) = 1
    /\ g.holes = <<2, 1>>

\* what is seen of the survivor s of a fusion in diagram H
SurvivorView(H, s) ==
    [phase  |-> H.vdata[s].phase,
     kind   |-> H.vdata[s].ty,
     count  |-> num_vertices(H),
     others |-> neighbors(H, s) \ {s},
     loop   |-> s \in neighbors(H, s)]

\* C17: Spider Fusion is commutative in effect: for every matching pair,
\* fusing (v0, v1) and fusing (v1, v0) leave a survivor of the same phase, the
\* same number of vertices and the same neighbors of the survivor.
C17_FusionCommutes ==
    \A q \in FusionSites(g) :
        SurvivorView(spider_fusion_unchecked(g, q[1], q[2]), q[1])
          = SurvivorView(spider_fusion_unchecked(g, q[2], q[1]), q[2])

\* the driver is about to fuse two spiders of different phases, one of which
\* has a third vertex as neighbor
C17_Witness ==
    /\ pc = "Applying"
    /\ site[1] = "fusion"
    /\ g.vdata[site[2]].phase # g.vdata[site[3]].phase
    /\ g.vdata[site[2]].phase # Zero
    /\ g.vdata[site[3]].phase # Zero
    /\ neighbors(g, site[3]) \ {site[2], site[3]} # {}

\* C18: add_edge / add_edge_with_type between two existing vertices that are
\* already joined by an edge never rejects and never replaces: the call
\* returns normally, every edge that was there is still there, one more edge
\* of the requested kind joins the pair, num_edges is up by exactly 1 and the
\* edge enumeration is one entry longer.
C18_ParallelEdgeAdded ==
    \A s, t \in IdInputs : \A c \in ECodes :
        connected(g, s, t) =>
            \A o \in add_edge_with_type_result(g, s, t, c) :
                /\ o.st = "ok"
                /\ num_edges(o.g) = num_edges(g) + 1
                /\ Len(get_edges_json(o.g)) = Len(get_edges_json(g)) + 1
                /\ \A e \in EKeys : o.g.edges[e] >= g.edges[e]
                /\ o.g.edges[EK(s, t, IF c = 1 THEN "H" ELSE "N")]
                     = g.edges[EK(s, t, IF c = 1 THEN "H" ELSE "N")] + 1
                /\ o.g.vdata = g.vdata

\* vertices 0 and 1 are joined by a Simple and by a Hadamard edge
C18_Witness ==
    /\ Idle
    /\ result = "ok"
    /\ g.edges[<<0, 1, "N">>] = 1
    /\ g.edges[<<0, 1, "H">>] = 1

\* the predicate of rule m[1] holds at site m of diagram G
SiteHolds(G, m) ==
    /\ contains_vertex(G, m[2]) /\ contains_vertex(G, m[3])
    /\ \/ m[1] = "fusion" /\ check_spider_fusion(G, m[2], m[3])
       \/ m[1] = "pivot" /\ check_pivot(G, m[2], m[3])
       \/ m[1] = "id" /\ m[2] = m[3] /\ check_remove_id(G, m[2])
       \/ m[1] = "lcomp" /\ m[2] = m[3] /\ check_local_comp(G, m[2])

\* no rule of strategy s has a site in G
NoSite(s, G) ==
    \A r \in RulesOf(s) : \A v0, v1 \in Ids : ~SiteHolds(G, <<r, v0, v1>>)

\* what a strategy returns after count applications
Returned(s, n) ==
    IF s = "full_spider_fusion" THEN "count" ELSE IF n > 0 THEN "true" ELSE "false"

\* C19: the driver enters with no application counted; it moves Scanning ->
\* Applying only for a site whose rule predicate holds in the current diagram;
\* Applying -> Scanning counts an application; it reaches Stable only when no
\* rule of the strategy has a site, and then returns true iff an application
\* was counted (full_spider_fusion: the count); apply_spider_fusion returns
\* true iff a fusion site existed. On a diagram of Boundary vertices only,
\* every strategy returns "no change" and leaves the diagram unchanged.
C19_DriverMachine ==
    [][/\ (strat = "none" /\ strat' # "none")
            => (pc' = "Scanning" /\ count' = 0 /\ g' = g)
       /\ (pc = "Scanning" /\ pc' = "Applying")
            => (/\ site'[1] \in RulesOf(strat)
                /\ SiteHolds(g, site')
                /\ g' = g /\ count' = count /\ strat' = strat)
       /\ (pc = "Applying")
            => (pc' = "Scanning" /\ count' > 0 /\ strat' = strat)
       /\ (strat # "none" /\ strat' = "none")
            => (/\ pc = "Scanning"
                /\ NoSite(strat, g)
                /\ g' = g
                /\ result' = Returned(strat, count)
                /\ strat = "full_spider_fusion" => count' = count)
       /\ (Idle /\ Idle' /\ result' \in {"true", "false"})
            => (/\ (result' = "true") <=> (FusionSites(g) # {})
                /\ result' = "false" => g' = g)
       /\ (/\ Vertices(g) = BoundarySet(g)
           /\ \/ pc = "Scanning" /\ count = 0
              \/ Idle /\ Idle' /\ result' \in {"true", "false"})
            => (/\ strat' = "none"
                /\ result' \in {"false", "count"}
                /\ count' = 0
                /\ g' = g)]_vars

\* a strategy has returned "no change" on three Boundary vertices and two edges
C19_Witness ==
    /\ Idle
    /\ result = "false"
    /\ num_vertices(g) = MaxV
    /\ Vertices(g) = BoundarySet(g)
    /\ num_edges(g) = MaxDE
====
